---------------------------- MODULE Spec2Model ----------------------------
(***************************************************************************)
(* Knowledge Platform MCP server: the tool dispatch and query-translation  *)
(* layer of the two bindings, apps/mcp-server/src/index.ts (stdio) and     *)
(* apps/mcp-server/src/sse-server.ts (HTTP/SSE).                           *)
(*                                                                         *)
(* One tool invocation is delivered to both bindings, which serve it       *)
(* against the same backend (Meilisearch) scenario.  Every handler is cut  *)
(* at its awaits: the synchronous code up to a backend call is one step,   *)
(* the backend's answer together with the code that runs on it the next.   *)
(***************************************************************************)
EXTENDS Integers, Sequences, FiniteSets, TLC

(***************************************************************************)
(* JavaScript values.  Every value is a record with one distinguishing     *)
(* field, so that values of different types can be compared.               *)
(***************************************************************************)
Undefined == [undef |-> TRUE]
Null == [null |-> TRUE]
Str(s) == [str |-> s]
Num(n) == [num |-> n]
Arr(a) == [arr |-> a]
Obj(r) == [obj |-> r]
Bool(b) == [bool |-> b]
EmptyObj == Obj([k \in {} |-> Undefined])

IsUndef(v) == "undef" \in DOMAIN v
IsStr(v) == "str" \in DOMAIN v
IsNum(v) == "num" \in DOMAIN v
IsArr(v) == "arr" \in DOMAIN v
IsObj(v) == "obj" \in DOMAIN v
IsBool(v) == "bool" \in DOMAIN v

\* An object whose property names are data (a facet-count map): its
\* properties <<name, value>> in the order they were created.
Dict(entries) == [dict |-> entries]
IsDict(v) == "dict" \in DOMAIN v

\* o.k on an object: a missing property reads as undefined.
Get(o, k) == IF k \in DOMAIN o.obj THEN o.obj[k] ELSE Undefined

\* o?.k: undefined when o is undefined.
OptGet(o, k) == IF IsObj(o) THEN Get(o, k) ELSE Undefined

\* ToBoolean.
Truthy(v) ==
  IF IsUndef(v) \/ v = Null THEN FALSE
  ELSE IF IsStr(v) THEN v.str # ""
  ELSE IF IsNum(v) THEN v.num # 0
  ELSE IF IsBool(v) THEN v.bool
  ELSE TRUE

\* a || b
Or(a, b) == IF Truthy(a) THEN a ELSE b

\* A destructuring default (limit = 10): taken only for undefined.
Default(v, d) == IF IsUndef(v) THEN d ELSE v

\* v.length: defined on strings and arrays.
Length(v) ==
  IF IsStr(v) THEN Num(Len(v.str))
  ELSE IF IsArr(v) THEN Num(Len(v.arr))
  ELSE Undefined

Digit(d) == SubSeq("0123456789", d + 1, d + 1)

RECURSIVE NatToString(_)
NatToString(n) == IF n < 10 THEN Digit(n) ELSE NatToString(n \div 10) \o Digit(n % 10)

\* `${v}` in a template literal.
TemplateString(v) ==
  IF IsStr(v) THEN v.str
  ELSE IF IsUndef(v) THEN "undefined"
  ELSE IF IsNum(v) THEN (IF v.num < 0 THEN "-" \o NatToString(-v.num) ELSE NatToString(v.num))
  ELSE "[object Object]"

\* s.slice(0, n) on a string; on undefined (content?.slice) the result is undefined.
Slice(v, n) ==
  IF IsStr(v) THEN Str(SubSeq(v.str, 1, IF Len(v.str) < n THEN Len(v.str) ELSE n))
  ELSE Undefined

RECURSIVE Repeat(_, _)
Repeat(s, n) ==
  IF n = 0 THEN ""
  ELSE LET half == Repeat(s, n \div 2)
       IN IF n % 2 = 0 THEN half \o half ELSE half \o half \o s


(***************************************************************************)
(* Configuration (the defaults) and program constants.                     *)
(***************************************************************************)
indexName == "documents"
chunksIndexName == "documents_chunks"
MaxLimit == 50
DefaultLimit == 10
SnippetLength == 300
DecisionLimit == 5

(***************************************************************************)
(* What a synchronous stretch of a handler ends in: a backend call it      *)
(* awaits, a returned value, or a thrown Error (kept by its message).      *)
(***************************************************************************)
\* `next` names the code that runs on the answer.
Request(r, next) == [kind |-> "request", req |-> r, next |-> next]
Return(v) == [kind |-> "return", value |-> v]
Throw(m) == [kind |-> "throw", message |-> m]

\* A callee's await, seen from the caller that awaits the callee.
Then(step, next) == IF step.kind = "request" THEN [step EXCEPT !.next = next] ELSE step

SearchRequest(index, q, params) == [op |-> "search", index |-> index, q |-> q, params |-> params]
GetDocumentRequest(index, id) == [op |-> "getDocument", index |-> index, id |-> id]

\* Math.min(limit, 50) on a number.
MathMin(v, m) == Num(IF v.num < m THEN v.num ELSE m)

\* A variant that joins with AND.
RECURSIVE JoinOr_and(_)
JoinOr_and(clauses) ==
  IF Len(clauses) = 0 THEN ""
  ELSE IF Len(clauses) = 1 THEN clauses[1]
  ELSE clauses[1] \o " AND " \o JoinOr_and(Tail(clauses))

\* tags.map((t) => `tags = "${t}"`).join(" OR ")
RECURSIVE JoinOr(_)
JoinOr(clauses) ==
  IF Len(clauses) = 0 THEN ""
  ELSE IF Len(clauses) = 1 THEN clauses[1]
  ELSE clauses[1] \o " OR " \o JoinOr(Tail(clauses))

TagClause(t) == "tags = \"" \o TemplateString(t) \o "\""

TagFilter(tags) == JoinOr([i \in 1..Len(tags) |-> TagClause(tags[i])])

\* Reading a property of undefined or null throws a TypeError.
DestructureError(k) == "Cannot destructure property '" \o k \o "' of 'args' as it is undefined."
ReadError(k) == "Cannot read properties of undefined (reading '" \o k \o "')"
NotAFunction(f) == f \o " is not a function"

(***************************************************************************)
(* index.ts: the stdio binding's handlers.                                 *)
(***************************************************************************)
\* if (tags && tags.length > 0)
Stdio_hasTags(tags) == Truthy(tags) /\ IsNum(Length(tags)) /\ Length(tags).num > 0

Stdio_searchDocsParams(args) ==
  LET limit == Default(Get(args, "limit"), Num(DefaultLimit))
      tags == Get(args, "tags")
      searchParams ==
        [limit |-> MathMin(limit, MaxLimit),
         attributesToHighlight |-> <<"content", "title", "description">>,
         highlightPreTag |-> "**",
         highlightPostTag |-> "**",
         attributesToRetrieve |->
           <<"id", "title", "path", "description", "tags", "source_url", "updated_at">>]
  IN IF Stdio_hasTags(tags)
       THEN searchParams @@ [filter |-> Str(TagFilter(tags.arr))]
       ELSE searchParams

\* handleSearchDocs up to `await index.search(query, searchParams)`.
Stdio_handleSearchDocs(args) ==
  IF ~IsObj(args) THEN Throw(DestructureError("query"))
  ELSE IF Stdio_hasTags(Get(args, "tags")) /\ ~IsArr(Get(args, "tags"))
    THEN Throw(NotAFunction("tags.map"))
  ELSE Request(SearchRequest(indexName, Get(args, "query"),
                             Stdio_searchDocsParams(args)), "searchDocsDone")

Stdio_snippet(hit) ==
  Or(Or(OptGet(Get(hit, "_formatted"), "description"),
        Slice(OptGet(Get(hit, "_formatted"), "content"), SnippetLength)),
     Str(""))

Stdio_docResult(hit) ==
  Obj([id |-> Get(hit, "id"),
       title |-> Get(hit, "title"),
       path |-> Get(hit, "path"),
       description |-> Or(Get(hit, "description"), Str("")),
       tags |-> Or(Get(hit, "tags"), Arr(<<>>)),
       source_url |-> Get(hit, "source_url"),
       updated_at |-> Get(hit, "updated_at"),
       snippet |-> Stdio_snippet(hit)])

\* handleSearchDocs from the answer of index.search on.
Stdio_searchDocsDone(reply) ==
  IF ~reply.ok THEN Throw(reply.message)
  ELSE LET results == reply.value
           hits == Get(results, "hits")
       IN IF ~IsArr(hits) THEN Throw(ReadError("length"))
          ELSE Return(Obj([total |-> Get(results, "estimatedTotalHits"),
                           results |-> Arr([i \in 1..Len(hits.arr) |->
                                             Stdio_docResult(hits.arr[i])])]))

Stdio_searchChunksParams(args) ==
  LET limit == Default(Get(args, "limit"), Num(DefaultLimit))
      document_id == Get(args, "document_id")
      searchParams ==
        [limit |-> MathMin(limit, MaxLimit),
         attributesToHighlight |-> <<"content">>,
         highlightPreTag |-> "**",
         highlightPostTag |-> "**"]
  IN IF Truthy(document_id)
       THEN searchParams @@
            [filter |-> Str("document_id = \"" \o TemplateString(document_id) \o "\"")]
       ELSE searchParams

Stdio_handleSearchChunks(args) ==
  IF ~IsObj(args) THEN Throw(DestructureError("query"))
  ELSE Request(SearchRequest(chunksIndexName, Get(args, "query"),
                             Stdio_searchChunksParams(args)), "searchChunksDone")

Stdio_chunkResult(hit) ==
  Obj([id |-> Get(hit, "id"),
       document_id |-> Get(hit, "document_id"),
       title |-> Get(hit, "title"),
       path |-> Get(hit, "path"),
       content |-> Or(OptGet(Get(hit, "_formatted"), "content"), Get(hit, "content")),
       chunk_index |-> Get(hit, "chunk_index"),
       total_chunks |-> Get(hit, "total_chunks")])

Stdio_searchChunksDone(reply) ==
  IF ~reply.ok THEN Throw(reply.message)
  ELSE LET results == reply.value
           hits == Get(results, "hits")
       IN IF ~IsArr(hits) THEN Throw(ReadError("length"))
          ELSE Return(Obj([total |-> Get(results, "estimatedTotalHits"),
                           chunks |-> Arr([i \in 1..Len(hits.arr) |->
                                            Stdio_chunkResult(hits.arr[i])])]))

\* The search of handleGetDocument's catch block.
PathSearchRequest(id) ==
  SearchRequest(indexName, Str(""),
                [filter |-> Str("path = \"" \o TemplateString(id) \o "\""),
                 limit |-> Num(1)])

NotFoundMessage(id) == "Document not found: " \o TemplateString(id)

\* handleGetDocument up to `await index.getDocument(id)`.
Stdio_handleGetDocument(args) ==
  IF ~IsObj(args) THEN Throw(DestructureError("id"))
  ELSE Request(GetDocumentRequest(indexName, Get(args, "id")), "getDocumentDone")

\* ... from the answer of getDocument on: return the document, or, in the
\* catch block (entered on every error), search by path.
Stdio_getDocumentDone(args, reply) ==
  IF reply.ok THEN Return(reply.value)
  ELSE Request(PathSearchRequest(Get(args, "id")), "pathSearchDone")

\* A variant that returns the hit list instead of its first hit.
Stdio_pathSearchDone_hitList(args, reply) ==
  IF ~reply.ok THEN Throw(reply.message)
  ELSE LET hits == Get(reply.value, "hits")
       IN IF ~IsArr(hits) THEN Throw(ReadError("length"))
          ELSE IF Len(hits.arr) > 0 THEN Return(hits)
          ELSE Throw(NotFoundMessage(Get(args, "id")))

\* ... from the answer of the path search on.
Stdio_pathSearchDone(args, reply) ==
  IF ~reply.ok THEN Throw(reply.message)
  ELSE LET hits == Get(reply.value, "hits")
       IN IF ~IsArr(hits) THEN Throw(ReadError("length"))
          ELSE IF Len(hits.arr) > 0 THEN Return(hits.arr[1])
          ELSE Throw(NotFoundMessage(Get(args, "id")))


IsDigit(c) == \E d \in 0..9 : Digit(d) = c
DigitValue(c) == CHOOSE d \in 0..9 : Digit(d) = c

\* An integer-like property name ("0", "7", "2024").
IsIndexKey(k) ==
  /\ Len(k) > 0
  /\ \A i \in 1..Len(k) : IsDigit(SubSeq(k, i, i))
  /\ (Len(k) = 1 \/ SubSeq(k, 1, 1) # "0")

RECURSIVE ParseNat(_)
ParseNat(k) ==
  IF Len(k) = 0 THEN 0
  ELSE 10 * ParseNat(SubSeq(k, 1, Len(k) - 1)) + DigitValue(SubSeq(k, Len(k), Len(k)))

\* Insert x into s, sorted by key, after every element whose key is not greater.
RECURSIVE InsertByKey(_, _)
InsertByKey(s, x) ==
  IF Len(s) = 0 THEN <<x>>
  ELSE IF x.key < s[Len(s)].key
    THEN Append(InsertByKey(SubSeq(s, 1, Len(s) - 1), x), s[Len(s)])
    ELSE Append(s, x)

\* A stable sort (Array.prototype.sort is one) of [key, item] records,
\* ascending by key.
RECURSIVE SortByKey(_)
SortByKey(s) ==
  IF Len(s) = 0 THEN <<>>
  ELSE InsertByKey(SortByKey(SubSeq(s, 1, Len(s) - 1)), s[Len(s)])

Items(s) == [i \in 1..Len(s) |-> s[i].item]

\* Object.entries: integer-like names first, ascending, then the others in
\* creation order.
ObjectEntries(d) ==
  LET isIndex(e) == IsIndexKey(e[1])
      isName(e) == ~IsIndexKey(e[1])
      indexed == SelectSeq(d.dict, isIndex)
  IN Items(SortByKey([i \in 1..Len(indexed) |->
                        [key |-> ParseNat(indexed[i][1]), item |-> indexed[i]]]))
     \o SelectSeq(d.dict, isName)

\* .sort((a, b) => b.count - a.count): a before b when b.count - a.count < 0.
SortByCountDescending(s) ==
  Items(SortByKey([i \in 1..Len(s) |-> [key |-> 0 - Get(s[i], "count").num, item |-> s[i]]]))

\* handleListTags up to `await index.search("", {facets, limit: 0})`.
Stdio_handleListTags ==
  Request(SearchRequest(indexName, Str(""), [facets |-> <<"tags">>, limit |-> Num(0)]),
          "listTagsDone")

\* ... from the answer on.
Stdio_listTagsDone(reply) ==
  IF ~reply.ok THEN Throw(reply.message)
  ELSE LET tagCounts == Or(OptGet(Get(reply.value, "facetDistribution"), "tags"), Dict(<<>>))
           entries == ObjectEntries(tagCounts)
           mapped == [i \in 1..Len(entries) |->
                        Obj([tag |-> Str(entries[i][1]), count |-> entries[i][2]])]
       IN Return(Obj([tags |-> Arr(SortByCountDescending(mapped))]))

NoDecisionMessage == "No relevant decisions found for this question."
NoDecisionSuggestion == "Try rephrasing your question or use search_docs with different keywords."
SynthesisNote == "Synthesize an answer from these documents. If the answer is unclear, say so."

\* handleLookupDecision up to the await inside handleSearchDocs.
Stdio_handleLookupDecision(args) ==
  IF ~IsObj(args) THEN Throw(DestructureError("question"))
  ELSE Then(Stdio_handleSearchDocs(Obj([query |-> Get(args, "question"),
                                        limit |-> Num(DecisionLimit)])),
            "lookupDecisionDone")

Stdio_evidence(doc) ==
  Obj([title |-> Get(doc, "title"),
       path |-> Get(doc, "path"),
       description |-> Get(doc, "description"),
       tags |-> Get(doc, "tags"),
       source_url |-> Get(doc, "source_url"),
       snippet |-> Get(doc, "snippet")])

\* ... from the answer of the search on.
Stdio_lookupDecisionDone(args, reply) ==
  LET searched == Stdio_searchDocsDone(reply)
  IN IF searched.kind = "throw" THEN searched
     ELSE LET docs == Get(searched.value, "results").arr
          IN IF Len(docs) = 0
               THEN Return(Obj([found |-> Bool(FALSE),
                                message |-> Str(NoDecisionMessage),
                                suggestion |-> Str(NoDecisionSuggestion)]))
               ELSE Return(Obj([found |-> Bool(TRUE),
                                question |-> Get(args, "question"),
                                relevant_documents |->
                                  Arr([i \in 1..Len(docs) |-> Stdio_evidence(docs[i])]),
                                note |-> Str(SynthesisNote)]))


(***************************************************************************)
(* sse-server.ts: the HTTP/SSE binding's handlers.                         *)
(***************************************************************************)
\* if (tags?.length)
Sse_hasTags(tags) == (IsStr(tags) \/ IsArr(tags)) /\ Truthy(Length(tags))

Sse_searchDocsParams(args) ==
  LET limit == Default(Get(args, "limit"), Num(DefaultLimit))
      tags == Get(args, "tags")
      searchParams ==
        [limit |-> MathMin(limit, MaxLimit),
         attributesToHighlight |-> <<"content", "title">>,
         highlightPreTag |-> "**",
         highlightPostTag |-> "**"]
  IN IF Sse_hasTags(tags)
       THEN searchParams @@ [filter |-> Str(TagFilter(tags.arr))]
       ELSE searchParams

Sse_handleSearchDocs(args) ==
  IF ~IsObj(args) THEN Throw(DestructureError("query"))
  ELSE IF Sse_hasTags(Get(args, "tags")) /\ ~IsArr(Get(args, "tags"))
    THEN Throw(NotAFunction("tags.map"))
  ELSE Request(SearchRequest(indexName, Get(args, "query"),
                             Sse_searchDocsParams(args)), "searchDocsDone")

Sse_snippet(hit) ==
  Or(Slice(OptGet(Get(hit, "_formatted"), "content"), SnippetLength), Str(""))

Sse_docResult(hit) ==
  Obj([id |-> Get(hit, "id"),
       title |-> Get(hit, "title"),
       path |-> Get(hit, "path"),
       tags |-> Or(Get(hit, "tags"), Arr(<<>>)),
       snippet |-> Sse_snippet(hit)])

Sse_searchDocsDone(reply) ==
  IF ~reply.ok THEN Throw(reply.message)
  ELSE LET results == reply.value
           hits == Get(results, "hits")
       IN IF ~IsArr(hits) THEN Throw(ReadError("map"))
          ELSE Return(Obj([total |-> Get(results, "estimatedTotalHits"),
                           results |-> Arr([i \in 1..Len(hits.arr) |->
                                             Sse_docResult(hits.arr[i])])]))

\* const searchParams: any = { limit };
Sse_searchChunksParams(args) ==
  LET limit == Default(Get(args, "limit"), Num(DefaultLimit))
      document_id == Get(args, "document_id")
      searchParams == [limit |-> limit]
  IN IF Truthy(document_id)
       THEN searchParams @@
            [filter |-> Str("document_id = \"" \o TemplateString(document_id) \o "\"")]
       ELSE searchParams

Sse_handleSearchChunks(args) ==
  IF ~IsObj(args) THEN Throw(DestructureError("query"))
  ELSE Request(SearchRequest(chunksIndexName, Get(args, "query"),
                             Sse_searchChunksParams(args)), "searchChunksDone")

\* chunks: results.hits, the raw hits.
Sse_searchChunksDone(reply) ==
  IF ~reply.ok THEN Throw(reply.message)
  ELSE Return(Obj([total |-> Get(reply.value, "estimatedTotalHits"),
                   chunks |-> Get(reply.value, "hits")]))

\* args.id is read inside the try and again inside the catch, which
\* rethrows the TypeError when args is undefined.
Sse_handleGetDocument(args) ==
  IF ~IsObj(args) THEN Throw(ReadError("id"))
  ELSE Request(GetDocumentRequest(indexName, Get(args, "id")), "getDocumentDone")

Sse_getDocumentDone(args, reply) ==
  IF reply.ok THEN Return(reply.value)
  ELSE Request(PathSearchRequest(Get(args, "id")), "pathSearchDone")

Sse_pathSearchDone(args, reply) ==
  IF ~reply.ok THEN Throw(reply.message)
  ELSE LET hits == Get(reply.value, "hits")
       IN IF ~IsArr(hits) THEN Throw(ReadError("length"))
          ELSE IF Truthy(Length(hits)) THEN Return(hits.arr[1])
          ELSE Throw(NotFoundMessage(Get(args, "id")))

Sse_NoDecisionMessage == "No relevant decisions found."

Sse_handleLookupDecision(args) ==
  IF ~IsObj(args) THEN Throw(ReadError("question"))
  ELSE Then(Sse_handleSearchDocs(Obj([query |-> Get(args, "question"),
                                      limit |-> Num(DecisionLimit)])),
            "lookupDecisionDone")

Sse_lookupDecisionDone(args, reply) ==
  LET searched == Sse_searchDocsDone(reply)
  IN IF searched.kind = "throw" THEN searched
     ELSE LET docs == Get(searched.value, "results")
          IN IF ~Truthy(Length(docs))
               THEN Return(Obj([found |-> Bool(FALSE),
                                message |-> Str(Sse_NoDecisionMessage)]))
               ELSE Return(Obj([found |-> Bool(TRUE),
                                question |-> Get(args, "question"),
                                relevant_documents |-> docs]))


(***************************************************************************)
(* The tool lists and the CallToolRequestSchema handlers.                  *)
(***************************************************************************)
Tool(name, properties, required) ==
  [name |-> name, properties |-> properties, required |-> required]

\* index.ts `tools`: names, parameter types and required parameters
\* (the description texts are left out).
Stdio_tools ==
  << Tool("search_docs", [query |-> "string", limit |-> "number", tags |-> "array"], {"query"}),
     Tool("search_chunks", [query |-> "string", limit |-> "number", document_id |-> "string"],
          {"query"}),
     Tool("get_document", [id |-> "string"], {"id"}),
     Tool("list_tags", [k \in {} |-> ""], {}),
     Tool("lookup_decision", [question |-> "string"], {"question"}) >>

Sse_tools ==
  << Tool("search_docs", [query |-> "string", limit |-> "number", tags |-> "array"], {"query"}),
     Tool("search_chunks", [query |-> "string", limit |-> "number", document_id |-> "string"],
          {"query"}),
     Tool("get_document", [id |-> "string"], {"id"}),
     Tool("lookup_decision", [question |-> "string"], {"question"}) >>

UnknownToolMessage(name) == "Unknown tool: " \o name

\* A variant whose switch has no default case: result stays undefined.
Stdio_callTool_noDefault(name, args) ==
  CASE name = "search_docs" -> Stdio_handleSearchDocs(args)
    [] name = "search_chunks" -> Stdio_handleSearchChunks(args)
    [] name = "get_document" -> Stdio_handleGetDocument(args)
    [] name = "list_tags" -> Stdio_handleListTags
    [] name = "lookup_decision" -> Stdio_handleLookupDecision(args)
    [] OTHER -> Return(Undefined)

\* The switch of the stdio handler, up to the first await.
Stdio_callTool(name, args) ==
  CASE name = "search_docs" -> Stdio_handleSearchDocs(args)
    [] name = "search_chunks" -> Stdio_handleSearchChunks(args)
    [] name = "get_document" -> Stdio_handleGetDocument(args)
    [] name = "list_tags" -> Stdio_handleListTags
    [] name = "lookup_decision" -> Stdio_handleLookupDecision(args)
    [] OTHER -> Throw(UnknownToolMessage(name))

Sse_callTool(name, args) ==
  CASE name = "search_docs" -> Sse_handleSearchDocs(args)
    [] name = "search_chunks" -> Sse_handleSearchChunks(args)
    [] name = "get_document" -> Sse_handleGetDocument(args)
    [] name = "lookup_decision" -> Sse_handleLookupDecision(args)
    [] OTHER -> Throw(UnknownToolMessage(name))

\* The code that runs when the awaited backend call settles.
Stdio_resume(next, args, reply) ==
  CASE next = "searchDocsDone" -> Stdio_searchDocsDone(reply)
    [] next = "searchChunksDone" -> Stdio_searchChunksDone(reply)
    [] next = "getDocumentDone" -> Stdio_getDocumentDone(args, reply)
    [] next = "pathSearchDone" -> Stdio_pathSearchDone(args, reply)
    [] next = "listTagsDone" -> Stdio_listTagsDone(reply)
    [] next = "lookupDecisionDone" -> Stdio_lookupDecisionDone(args, reply)

Sse_resume(next, args, reply) ==
  CASE next = "searchDocsDone" -> Sse_searchDocsDone(reply)
    [] next = "searchChunksDone" -> Sse_searchChunksDone(reply)
    [] next = "getDocumentDone" -> Sse_getDocumentDone(args, reply)
    [] next = "pathSearchDone" -> Sse_pathSearchDone(args, reply)
    [] next = "lookupDecisionDone" -> Sse_lookupDecisionDone(args, reply)

\* JSON.stringify, up to the text's layout: the value that the text
\* denotes.  A property whose value is undefined is left out, an undefined
\* array element becomes null, and undefined itself gives undefined.
RECURSIVE JsonValue(_)
JsonValue(v) ==
  IF IsObj(v)
    THEN Obj([k \in {x \in DOMAIN v.obj : ~IsUndef(v.obj[x])} |-> JsonValue(v.obj[k])])
  ELSE IF IsArr(v)
    THEN Arr([i \in 1..Len(v.arr) |->
               IF IsUndef(v.arr[i]) THEN Null ELSE JsonValue(v.arr[i])])
  ELSE v

JsonStringify(v) == IF IsUndef(v) THEN Undefined ELSE [json |-> JsonValue(v)]

SuccessEnvelope(result) ==
  [content |-> << [type |-> "text", text |-> JsonStringify(result)] >>]

ErrorEnvelope(message) ==
  [content |-> << [type |-> "text", text |-> JsonStringify(Obj([error |-> Str(message)]))] >>,
   isError |-> TRUE]


(***************************************************************************)
(* The backend (Meilisearch), as the handlers see it.  A scenario fixes    *)
(* what it holds and how it fails while one request is served, so that the *)
(* same call gets the same answer in both bindings.                        *)
(*   lookup: what getDocument does: "found", "not_found", "unavailable"    *)
(*   search: what search does: "ok", "unavailable", "malformed"            *)
(*   docs, chunks: the matching hits of either index, in ranking order     *)
(*   facets: the facetDistribution of a search that asks for facets        *)
(***************************************************************************)
BackendOk(v) == [ok |-> TRUE, value |-> v]
BackendError(code, message) == [ok |-> FALSE, code |-> code, message |-> message]

Take(s, n) == SubSeq(s, 1, IF n < Len(s) THEN n ELSE Len(s))

SearchAnswer(b, req) ==
  LET limit == req.params.limit
      matching == IF req.index = indexName THEN b.docs ELSE b.chunks
      found == [estimatedTotalHits |-> Num(Len(matching)),
                hits |-> Arr(Take(matching, limit.num))]
  IN IF b.search = "unavailable" THEN BackendError("communication", "fetch failed")
     ELSE IF b.search = "malformed" THEN BackendOk(EmptyObj)
     ELSE IF req.index \notin {indexName, chunksIndexName}
       THEN BackendError("index_not_found", "Index " \o req.index \o " not found.")
     ELSE IF ~(IsStr(req.q) \/ IsUndef(req.q))
       THEN BackendError("invalid_search_q", "Invalid value type at .q")
     ELSE IF limit.num < 0
       THEN BackendError("invalid_search_limit", "Invalid value at .limit")
     ELSE IF "facets" \in DOMAIN req.params /\ ~IsUndef(b.facets)
       THEN BackendOk(Obj(found @@ [facetDistribution |-> Obj([tags |-> b.facets])]))
     ELSE BackendOk(Obj(found))

GetDocumentAnswer(b, req) ==
  IF b.lookup = "unavailable" THEN BackendError("communication", "fetch failed")
  ELSE IF b.lookup = "not_found"
    THEN BackendError("document_not_found",
                      "Document " \o TemplateString(req.id) \o " not found.")
  ELSE BackendOk(b.doc)

Answer(b, req) ==
  IF req.op = "search" THEN SearchAnswer(b, req) ELSE GetDocumentAnswer(b, req)

(***************************************************************************)
(* Bounds and inputs.                                                      *)
(***************************************************************************)
MaxHits == 6
MaxTags == 2
MaxFacets == 2
MaxCount == 2

\* An object literal: the properties of r that are given (not undefined).
Compact(r) == Obj([k \in {x \in DOMAIN r : ~IsUndef(r[x])} |-> r[k]])

RECURSIVE SeqsUpTo(_, _)
SeqsUpTo(S, n) ==
  IF n = 0 THEN {<<>>}
  ELSE LET shorter == SeqsUpTo(S, n - 1)
       IN shorter \cup {Append(q, x) : q \in shorter, x \in S}

IdOf(prefix, i) == Str(prefix \o NatToString(i))

LongContent == Repeat("x", SnippetLength + 1)

\* The i-th raw hit of the documents index; its shape varies with i.
DocHit(i, offset) ==
  LET shape == (i + offset) % 4
      base == [id |-> IdOf("doc-", i), title |-> IdOf("Title ", i),
               path |-> IdOf("docs/", i)]
  IN CASE shape = 0 ->
            Obj(base @@ [description |-> Str("About redis"), tags |-> Arr(<<Str("a")>>),
                         source_url |-> Str("https://kb/doc"),
                         updated_at |-> Str("2024-01-01")]
                     @@ ("_formatted" :> Obj([description |-> Str("About **redis**"),
                                              content |-> Str(LongContent)])))
       [] shape = 1 ->
            Obj(base @@ ("_formatted" :> Obj([content |-> Str(LongContent)])))
       [] shape = 2 -> Obj(base)
       [] shape = 3 ->
            Obj(base @@ [description |-> Str(""), tags |-> Arr(<<>>),
                         source_url |-> Str("https://kb/doc")]
                     @@ ("_formatted" :> Obj([description |-> Str(""),
                                              content |-> Str("**redis** notes")])))

ChunkHit(i, offset) ==
  LET shape == (i + offset) % 3
      base == [id |-> IdOf("chunk-", i)]
  IN CASE shape = 0 ->
            Obj(base @@ [document_id |-> Str("doc-1"), title |-> Str("Title"),
                         path |-> Str("docs/1"), content |-> Str("redis notes"),
                         chunk_index |-> Num(i), total_chunks |-> Num(MaxHits)]
                     @@ ("_formatted" :> Obj([content |-> Str("**redis** notes")])))
       [] shape = 1 ->
            Obj(base @@ [document_id |-> Str("doc-1"), content |-> Str("redis notes"),
                         chunk_index |-> Num(i)])
       [] shape = 2 -> Obj(base)

StoredDocument ==
  Obj([id |-> Str("doc-1"), title |-> Str("Title 1"), path |-> Str("docs/1"),
       content |-> Str("redis notes"), tags |-> Arr(<<Str("a")>>)])

DocHitLists ==
  {[i \in 1..n |-> DocHit(i, offset)] : n \in 0..MaxHits, offset \in 0..3}

ChunkHitLists ==
  {[i \in 1..n |-> ChunkHit(i, offset)] : n \in 0..MaxHits, offset \in 0..2}

FacetMaps ==
  {Dict(entries) : entries \in
     {e \in SeqsUpTo({"a", "b", "7", "3"} \X {Num(c) : c \in 1..MaxCount}, MaxFacets) :
        \A i, j \in 1..Len(e) : i # j => e[i][1] # e[j][1]}}

QuietBackend ==
  [lookup |-> "not_found", search |-> "ok", docs |-> <<>>, chunks |-> <<>>,
   facets |-> Undefined, doc |-> StoredDocument]

SearchFailures == {[QuietBackend EXCEPT !.search = m] : m \in {"unavailable", "malformed"}}

DocScenarios == {[QuietBackend EXCEPT !.docs = h] : h \in DocHitLists} \cup SearchFailures
ChunkScenarios ==
  {[QuietBackend EXCEPT !.chunks = h] : h \in ChunkHitLists} \cup SearchFailures
FacetScenarios ==
  {[QuietBackend EXCEPT !.facets = f] : f \in FacetMaps \cup {Undefined}} \cup SearchFailures
LookupScenarios ==
  {[s EXCEPT !.lookup = l] : s \in DocScenarios, l \in {"found", "not_found", "unavailable"}}

QueryArgs == {Undefined, Str("redis"), Num(7)}
LimitArgs == {Undefined} \cup {Num(n) : n \in {-1, 0, 2, MaxLimit, MaxLimit + 1}}
TagsArgs == {Undefined, Str("a")} \cup {Arr(t) : t \in SeqsUpTo({Str("a"), Str("b")}, MaxTags)}
DocumentIdArgs == {Undefined, Str(""), Str("doc-1")}
IdArgs == {Undefined, Str("doc-1"), Str("docs/1")}
QuestionArgs == {Undefined, Str("Why redis?"), Num(7)}

SearchDocsArgs ==
  {Undefined} \cup {Compact([query |-> q, limit |-> l, tags |-> t]) :
                      q \in QueryArgs, l \in LimitArgs, t \in TagsArgs}
SearchChunksArgs ==
  {Undefined} \cup {Compact([query |-> q, limit |-> l, document_id |-> d]) :
                      q \in QueryArgs, l \in LimitArgs, d \in DocumentIdArgs}
GetDocumentArgs == {Undefined} \cup {Compact([id |-> i]) : i \in IdArgs}
ListTagsArgs == {Undefined, EmptyObj}
LookupDecisionArgs == {Undefined} \cup {Compact([question |-> q]) : q \in QuestionArgs}

ToolCall(name, args) == [method |-> "tools/call", name |-> name, arguments |-> args]
ListRequest == [method |-> "tools/list"]
NoRequest == [method |-> "none"]

\* A request together with the backend scenario it is served against.
Inputs ==
  ({ToolCall("search_docs", a) : a \in SearchDocsArgs} \X DocScenarios)
  \cup ({ToolCall("search_chunks", a) : a \in SearchChunksArgs} \X ChunkScenarios)
  \cup ({ToolCall("get_document", a) : a \in GetDocumentArgs} \X LookupScenarios)
  \cup ({ToolCall("list_tags", a) : a \in ListTagsArgs} \X FacetScenarios)
  \cup ({ToolCall("lookup_decision", a) : a \in LookupDecisionArgs} \X DocScenarios)
  \cup ({ToolCall("delete_index", Undefined), ListRequest} \X {QuietBackend})

(***************************************************************************)
(* The state machine.                                                      *)
(***************************************************************************)
Bindings == {"stdio", "sse"}

VARIABLES
  request,    \* the request being served (NoRequest before the first)
  backend,    \* the backend scenario it is served against
  pc,         \* per binding: "idle", "received", "awaiting"
  next,       \* per binding: the code that runs on the awaited answer
  sent,       \* per binding: the backend calls made for the request, in order
  responses   \* per binding: the responses given to the request, in order

vars == <<request, backend, pc, next, sent, responses>>

Init ==
  /\ request = NoRequest
  /\ backend = QuietBackend
  /\ pc = [b \in Bindings |-> "idle"]
  /\ next = [b \in Bindings |-> "-"]
  /\ sent = [b \in Bindings |-> <<>>]
  /\ responses = [b \in Bindings |-> <<>>]

\* The transports hand the same request to either binding.
Receive ==
  /\ request = NoRequest
  /\ \A b \in Bindings : pc[b] = "idle"
  /\ \E input \in Inputs :
       /\ request' = input[1]
       /\ backend' = input[2]
  /\ pc' = [b \in Bindings |-> "received"]
  /\ next' = [b \in Bindings |-> "-"]
  /\ sent' = [b \in Bindings |-> <<>>]
  /\ responses' = [b \in Bindings |-> <<>>]

\* ListToolsRequestSchema handler.
ListTools(b) ==
  /\ pc[b] = "received"
  /\ request.method = "tools/list"
  /\ responses' = [responses EXCEPT ![b] =
                     Append(@, [tools |-> IF b = "stdio" THEN Stdio_tools ELSE Sse_tools])]
  /\ pc' = [pc EXCEPT ![b] = "idle"]
  /\ UNCHANGED <<request, backend, next, sent>>

\* The try/catch of the CallToolRequestSchema handler around a stretch of
\* handler code: a backend call suspends it, a returned value becomes the
\* success envelope and a thrown Error the error envelope.
Settle(b, step) ==
  IF step.kind = "request"
    THEN /\ sent' = [sent EXCEPT ![b] = Append(@, step.req)]
         /\ next' = [next EXCEPT ![b] = step.next]
         /\ pc' = [pc EXCEPT ![b] = "awaiting"]
         /\ UNCHANGED responses
    ELSE /\ responses' = [responses EXCEPT ![b] =
                            Append(@, IF step.kind = "return"
                                        THEN SuccessEnvelope(step.value)
                                        ELSE ErrorEnvelope(step.message))]
         /\ next' = [next EXCEPT ![b] = "-"]
         /\ pc' = [pc EXCEPT ![b] = "idle"]
         /\ UNCHANGED sent

\* CallToolRequestSchema handler, up to the first await.
CallTool(b) ==
  /\ pc[b] = "received"
  /\ request.method = "tools/call"
  /\ Settle(b, IF b = "stdio" THEN Stdio_callTool(request.name, request.arguments)
                              ELSE Sse_callTool(request.name, request.arguments))
  /\ UNCHANGED <<request, backend>>

\* The awaited backend call settles and the handler runs on.
BackendReply(b) ==
  /\ pc[b] = "awaiting"
  /\ LET reply == Answer(backend, sent[b][Len(sent[b])])
     IN Settle(b, IF b = "stdio" THEN Stdio_resume(next[b], request.arguments, reply)
                                 ELSE Sse_resume(next[b], request.arguments, reply))
  /\ UNCHANGED <<request, backend>>

\* Both bindings have answered: nothing of the request is kept (the
\* handlers hold no state between requests; sent and responses are the
\* record of this request only).
Finish ==
  /\ request # NoRequest
  /\ \A b \in Bindings : pc[b] = "idle"
  /\ request' = NoRequest
  /\ backend' = QuietBackend
  /\ sent' = [b \in Bindings |-> <<>>]
  /\ responses' = [b \in Bindings |-> <<>>]
  /\ UNCHANGED <<pc, next>>

Next ==
  \/ Receive
  \/ Finish
  \/ \E b \in Bindings : ListTools(b)
  \/ \E b \in Bindings : CallTool(b)
  \/ \E b \in Bindings : BackendReply(b)

Spec == Init /\ [][Next]_vars


(***************************************************************************)
(* Vocabulary of the properties.                                           *)
(***************************************************************************)
IsCall(name) == request.method = "tools/call" /\ request.name = name

\* Binding b has answered the request.
Done(b) == request # NoRequest /\ pc[b] = "idle"

Response(b) == responses[b][1]

IsErrorEnvelope(e) == "isError" \in DOMAIN e

\* The value a response's text denotes.
Payload(b) == Response(b).content[1].text.json

Searches(b) == SelectSeq(sent[b], LAMBDA r : r.op = "search")

Min(a, b) == IF a < b THEN a ELSE b

\* The arguments give a query string.
HasQuery == IsObj(request.arguments) /\ IsStr(Get(request.arguments, "query"))

\* The arguments give a string identifier.
HasIdentifier == IsObj(request.arguments) /\ IsStr(Get(request.arguments, "id"))

(***************************************************************************)
(* C1: every search request sent to the backend, by any tool in either     *)
(* binding and for any limit the caller gives, carries a limit within      *)
(* 0..50.                                                                  *)
(***************************************************************************)
C1_LimitWithinBounds ==
  \A b \in Bindings : \A i \in 1..Len(sent[b]) :
    sent[b][i].op = "search" =>
      /\ "limit" \in DOMAIN sent[b][i].params
      /\ IsNum(sent[b][i].params.limit)
      /\ sent[b][i].params.limit.num \in 0..MaxLimit

(***************************************************************************)
(* C2: get_document issues the path-filtered search only when the direct   *)
(* lookup failed with not-found; when the lookup fails otherwise, no       *)
(* search is issued and the lookup's failure is what is reported.          *)
(***************************************************************************)
C2_FallbackOnlyOnNotFound ==
  \A b \in Bindings :
    (IsCall("get_document") /\ HasIdentifier) =>
      /\ Len(Searches(b)) > 0 => backend.lookup = "not_found"
      /\ (Done(b) /\ backend.lookup = "unavailable") =>
           Response(b) = ErrorEnvelope(GetDocumentAnswer(backend, sent[b][1]).message)


(***************************************************************************)
(* C3: get_document with identifier id.  When the direct lookup succeeds   *)
(* the document is returned and no search is issued; when it fails and the *)
(* path search returns a hit, that hit is returned as a success; when it   *)
(* fails and the path search returns no hit, the answer is the error       *)
(* envelope with message "Document not found: <id>".                       *)
(***************************************************************************)
C3_GetDocumentOutcomes ==
  \A b \in Bindings :
    (IsCall("get_document") /\ HasIdentifier) =>
      LET id == Get(request.arguments, "id").str
      IN /\ backend.lookup = "found" => Len(Searches(b)) = 0
         /\ (Done(b) /\ backend.lookup = "found") =>
              /\ ~IsErrorEnvelope(Response(b))
              /\ Payload(b) = JsonValue(backend.doc)
         /\ (Done(b) /\ backend.lookup # "found" /\ backend.search = "ok"
               /\ Len(backend.docs) > 0) =>
              /\ ~IsErrorEnvelope(Response(b))
              /\ Payload(b) = JsonValue(backend.docs[1])
         /\ (Done(b) /\ backend.lookup # "found" /\ backend.search = "ok"
               /\ Len(backend.docs) = 0) =>
              /\ IsErrorEnvelope(Response(b))
              /\ Payload(b) = Obj([error |-> Str("Document not found: " \o id)])

\* Both bindings have answered get_document from the path search's hit,
\* after a not-found lookup.
C3_Witness ==
  /\ IsCall("get_document") /\ HasIdentifier
  /\ backend.lookup = "not_found" /\ backend.search = "ok" /\ Len(backend.docs) > 1
  /\ \A b \in Bindings :
       /\ Done(b)
       /\ Len(Searches(b)) = 1
       /\ Payload(b) = JsonValue(backend.docs[1])

(***************************************************************************)
(* C4: every tool invocation gets exactly one response and no failure      *)
(* escapes the dispatcher: a binding that has not answered yet has given   *)
(* no response and can take its next step; a binding that has answered has *)
(* given one response, which is the success envelope                       *)
(* {content: [{type: "text", text: <serialized result>}]} or the error     *)
(* envelope with isError: true and text {error: <message>}; an unknown     *)
(* tool name and a failed backend call give the error envelope; and once   *)
(* the request is answered the next one can be received.                   *)
(***************************************************************************)
IsTextContent(e) ==
  /\ Len(e.content) = 1
  /\ e.content[1].type = "text"
  /\ "json" \in DOMAIN e.content[1].text

IsSuccessEnvelope(e) == DOMAIN e = {"content"} /\ IsTextContent(e)

IsWellFormedError(e) ==
  /\ DOMAIN e = {"content", "isError"}
  /\ e.isError = TRUE
  /\ IsTextContent(e)
  /\ IsObj(e.content[1].text.json)
  /\ DOMAIN e.content[1].text.json.obj = {"error"}
  /\ IsStr(e.content[1].text.json.obj.error)

KnownTools(b) ==
  LET tools == IF b = "stdio" THEN Stdio_tools ELSE Sse_tools
  IN {tools[i].name : i \in 1..Len(tools)}

\* The code a binding can be suspended before.
Continuations(b) ==
  {"searchDocsDone", "searchChunksDone", "getDocumentDone", "pathSearchDone",
   "lookupDecisionDone"} \cup (IF b = "stdio" THEN {"listTagsDone"} ELSE {})

C4_OneResponsePerInvocation ==
  /\ request = NoRequest => ENABLED Receive
  /\ \A b \in Bindings :
       request.method = "tools/call" =>
         /\ pc[b] \in {"received", "awaiting", "idle"}
         /\ pc[b] = "received" => (responses[b] = <<>> /\ ENABLED CallTool(b))
         /\ pc[b] = "awaiting" =>
              (responses[b] = <<>> /\ sent[b] # <<>> /\ next[b] \in Continuations(b))
         /\ pc[b] = "idle" =>
              /\ Len(responses[b]) = 1
              /\ IsSuccessEnvelope(Response(b)) \/ IsWellFormedError(Response(b))
              /\ request.name \notin KnownTools(b) =>
                   /\ IsWellFormedError(Response(b))
                   /\ Payload(b) = Obj([error |-> Str("Unknown tool: " \o request.name)])
                   /\ sent[b] = <<>>
              /\ (sent[b] # <<>> /\ ~Answer(backend, sent[b][Len(sent[b])]).ok) =>
                   /\ IsWellFormedError(Response(b))
                   /\ Payload(b) =
                        Obj([error |-> Str(Answer(backend, sent[b][Len(sent[b])]).message)])
              /\ (\A c \in Bindings : pc[c] = "idle") => ENABLED Finish

\* Both bindings have answered a call of a tool that neither knows.
C4_Witness ==
  /\ request.method = "tools/call"
  /\ \A b \in Bindings :
       /\ request.name \notin KnownTools(b)
       /\ Done(b)
       /\ IsWellFormedError(Response(b))


(***************************************************************************)
(* C5: an invocation whose arguments miss a required parameter of the      *)
(* tool's inputSchema, or give a parameter a value of another type than    *)
(* the schema's, is rejected before the handler runs: no backend request   *)
(* is issued for it and it is answered with an error envelope.             *)
(***************************************************************************)
TypeOf(v) ==
  IF IsStr(v) THEN "string"
  ELSE IF IsNum(v) THEN "number"
  ELSE IF IsArr(v) THEN "array"
  ELSE IF IsBool(v) THEN "boolean"
  ELSE IF IsObj(v) THEN "object"
  ELSE "undefined"

Given(args) == IF IsObj(args) THEN DOMAIN args.obj ELSE {}

ViolatesSchema(tool, args) ==
  \/ \E k \in tool.required : k \notin Given(args)
  \/ \E k \in Given(args) \cap DOMAIN tool.properties :
       TypeOf(args.obj[k]) # tool.properties[k]

ToolsOf(b) == IF b = "stdio" THEN Stdio_tools ELSE Sse_tools

C5_InvalidArgumentsRejected ==
  \A b \in Bindings : \A i \in 1..Len(ToolsOf(b)) :
    (IsCall(ToolsOf(b)[i].name) /\ ViolatesSchema(ToolsOf(b)[i], request.arguments)) =>
      /\ sent[b] = <<>>
      /\ Done(b) => IsErrorEnvelope(Response(b))

(***************************************************************************)
(* C6: the stdio binding and the HTTP/SSE binding keep the same tool       *)
(* contract: once both have answered a request against the same backend,   *)
(* they have issued the same backend requests and given the same response  *)
(* (the same envelope for a tool call, the same tools for a listing).      *)
(***************************************************************************)
C6_BindingsAgree ==
  (Done("stdio") /\ Done("sse")) =>
    /\ sent["stdio"] = sent["sse"]
    /\ responses["stdio"] = responses["sse"]

(***************************************************************************)
(* C7: search_docs with a tag list T.  When T is non-empty the filter of   *)
(* the search request is the OR-join of one clause tags = "<t>" per member *)
(* of T, in the order of T; when T is empty or absent the request carries  *)
(* no filter.                                                              *)
(***************************************************************************)
\* The clauses of T joined from the left.
OrJoined(T) ==
  LET joined[i \in 1..Len(T)] ==
        IF i = 1 THEN "tags = \"" \o T[1].str \o "\""
        ELSE joined[i - 1] \o " OR " \o "tags = \"" \o T[i].str \o "\""
  IN joined[Len(T)]

HasTagList == IsObj(request.arguments) /\ IsArr(Get(request.arguments, "tags"))

C7_TagFilter ==
  \A b \in Bindings :
    (IsCall("search_docs") /\ IsObj(request.arguments)
       /\ (HasTagList \/ IsUndef(Get(request.arguments, "tags")))) =>
      /\ pc[b] # "received" => Len(Searches(b)) = 1
      /\ \A i \in 1..Len(sent[b]) :
           IF HasTagList /\ Len(Get(request.arguments, "tags").arr) > 0
             THEN /\ "filter" \in DOMAIN sent[b][i].params
                  /\ sent[b][i].params.filter = Str(OrJoined(Get(request.arguments, "tags").arr))
             ELSE "filter" \notin DOMAIN sent[b][i].params

\* Both bindings have sent the search for tags ["a", "b"].
C7_Witness ==
  /\ IsCall("search_docs")
  /\ HasTagList
  /\ Get(request.arguments, "tags") = Arr(<<Str("a"), Str("b")>>)
  /\ \A b \in Bindings :
       /\ Len(sent[b]) = 1
       /\ sent[b][1].params.filter = Str("tags = \"a\" OR tags = \"b\"")


(***************************************************************************)
(* C8: for every hit returned by a document search, the snippet is the     *)
(* highlighted description when the hit has one; otherwise the first at    *)
(* most 300 characters of the highlighted content when the hit has that;   *)
(* otherwise the empty string.                                             *)
(***************************************************************************)
\* The raw hits the backend returned to binding b's first search.
ReturnedHits(b) == Get(Answer(backend, sent[b][1]).value, "hits").arr

Has(v) == IsStr(v) /\ v.str # ""

ExpectedSnippet(hit) ==
  LET description == OptGet(Get(hit, "_formatted"), "description")
      content == OptGet(Get(hit, "_formatted"), "content")
  IN IF Has(description) THEN description
     ELSE IF Has(content)
       THEN Str(SubSeq(content.str, 1, Min(Len(content.str), SnippetLength)))
     ELSE Str("")

C8_SnippetFallback ==
  \A b \in Bindings :
    (IsCall("search_docs") /\ HasQuery /\ Done(b) /\ ~IsErrorEnvelope(Response(b))) =>
      \A i \in 1..Len(ReturnedHits(b)) :
        Get(Get(Payload(b), "results").arr[i], "snippet") = ExpectedSnippet(ReturnedHits(b)[i])

(***************************************************************************)
(* C9: lookup_decision issues exactly one document search, with            *)
(* text = question, limit = 5 and no filter.  When the search returns no   *)
(* hit the result is {found: false, message, suggestion}, without          *)
(* relevant_documents; when n >= 1 documents match it is found: true with  *)
(* the question, relevant_documents of length min(n, 5) in backend order,  *)
(* and the fixed synthesis note.                                           *)
(***************************************************************************)
HasQuestion == IsObj(request.arguments) /\ IsStr(Get(request.arguments, "question"))

C9_LookupDecision ==
  \A b \in Bindings :
    (IsCall("lookup_decision") /\ HasQuestion) =>
      /\ pc[b] # "received" =>
           /\ Len(sent[b]) = 1
           /\ sent[b][1].op = "search"
           /\ sent[b][1].index = indexName
           /\ sent[b][1].q = Get(request.arguments, "question")
           /\ sent[b][1].params.limit = Num(DecisionLimit)
           /\ "filter" \notin DOMAIN sent[b][1].params
      /\ (Done(b) /\ backend.search = "ok" /\ Len(backend.docs) = 0) =>
           /\ DOMAIN Payload(b).obj = {"found", "message", "suggestion"}
           /\ Get(Payload(b), "found") = Bool(FALSE)
      /\ (Done(b) /\ backend.search = "ok" /\ Len(backend.docs) > 0) =>
           LET evidence == Get(Payload(b), "relevant_documents")
           IN /\ Get(Payload(b), "found") = Bool(TRUE)
              /\ Get(Payload(b), "question") = Get(request.arguments, "question")
              /\ IsArr(evidence)
              /\ Len(evidence.arr) = Min(Len(backend.docs), DecisionLimit)
              /\ \A i \in 1..Len(evidence.arr) :
                   Get(evidence.arr[i], "title") = Get(backend.docs[i], "title")
              /\ Get(Payload(b), "note") = Str(SynthesisNote)

(***************************************************************************)
(* C10: for every raw hit returned by a document or chunk search, every    *)
(* field of the normalized result is defined in the output (a field the    *)
(* raw hit lacks appears as an empty string or an empty set).  Stated of   *)
(* index.ts, the stdio binding.                                            *)
(***************************************************************************)
DocFields ==
  {"id", "title", "path", "description", "tags", "source_url", "updated_at", "snippet"}
ChunkFields ==
  {"id", "document_id", "title", "path", "content", "chunk_index", "total_chunks"}

C10_FieldsDefined ==
  /\ (IsCall("search_docs") /\ HasQuery /\ Done("stdio")
        /\ ~IsErrorEnvelope(Response("stdio"))) =>
       \A i \in 1..Len(Get(Payload("stdio"), "results").arr) :
         DocFields \subseteq DOMAIN Get(Payload("stdio"), "results").arr[i].obj
  /\ (IsCall("search_chunks") /\ HasQuery /\ Done("stdio")
        /\ ~IsErrorEnvelope(Response("stdio"))) =>
       \A i \in 1..Len(Get(Payload("stdio"), "chunks").arr) :
         ChunkFields \subseteq DOMAIN Get(Payload("stdio"), "chunks").arr[i].obj

(***************************************************************************)
(* C11: list_tags issues one search with empty text, limit 0 and a facet   *)
(* request on tags.  For every facet-count map the backend answers with,   *)
(* the result has one {tag, count} entry per tag of the map, ordered by    *)
(* count descending, and entries of equal count stand in the order the     *)
(* backend gave them; with no facet distribution in the answer the list is *)
(* empty.  Stated of index.ts, the stdio binding, which has the tool.      *)
(***************************************************************************)
\* The facet-count map of the scenario, in the backend's order.
BackendFacets == IF IsUndef(backend.facets) THEN <<>> ELSE backend.facets.dict

\* The position of a tag in the backend's order.
BackendPosition(tag) == CHOOSE i \in 1..Len(BackendFacets) : BackendFacets[i][1] = tag

ListedTags == Get(Payload("stdio"), "tags").arr

C11_ListTags ==
  IsCall("list_tags") =>
    /\ pc["stdio"] # "received" =>
         /\ Len(sent["stdio"]) = 1
         /\ sent["stdio"][1] =
              SearchRequest(indexName, Str(""), [facets |-> <<"tags">>, limit |-> Num(0)])
    /\ (Done("stdio") /\ backend.search = "ok") =>
         /\ ~IsErrorEnvelope(Response("stdio"))
         /\ DOMAIN Payload("stdio").obj = {"tags"}
         /\ Len(ListedTags) = Len(BackendFacets)
         /\ \A i \in 1..Len(BackendFacets) :
              \E p \in 1..Len(ListedTags) :
                ListedTags[p] = Obj([tag |-> Str(BackendFacets[i][1]),
                                     count |-> BackendFacets[i][2]])
         /\ \A p, q \in 1..Len(ListedTags) :
              p < q =>
                LET a == ListedTags[p]
                    b == ListedTags[q]
                IN \/ Get(a, "count").num > Get(b, "count").num
                   \/ /\ Get(a, "count").num = Get(b, "count").num
                      /\ BackendPosition(Get(a, "tag").str)
                           < BackendPosition(Get(b, "tag").str)

(***************************************************************************)
(* Several invocations in flight on one server.  The SDK starts the        *)
(* CallToolRequestSchema handler for each request as it arrives; a handler *)
(* runs until its next await, and the awaited backend calls settle in any  *)
(* order.  What a handler keeps across an await (name, args, the code to   *)
(* run next) are locals of its own async call; the module-level config,    *)
(* meili and tools are constants.  Here request, backend, pc, next, sent   *)
(* and responses are indexed by invocation, and request[i] also tells      *)
(* which binding serves it.                                                *)
(***************************************************************************)
MaxInFlight == 2

Invocations == 1..MaxInFlight

TwoDocs == [i \in 1..2 |-> DocHit(i, 0)]

\* Calls, each with the backend answers it is served with.
ConcurrentInputs ==
  { <<ToolCall("search_docs", Obj([query |-> Str("redis"), limit |-> Num(2)])),
      [QuietBackend EXCEPT !.docs = TwoDocs]>>,
    <<ToolCall("search_chunks", Obj([query |-> Str("redis")])),
      [QuietBackend EXCEPT !.chunks = <<ChunkHit(1, 0)>>]>>,
    <<ToolCall("get_document", Obj([id |-> Str("doc-1")])),
      [QuietBackend EXCEPT !.lookup = "found"]>>,
    <<ToolCall("get_document", Obj([id |-> Str("docs/1")])),
      [QuietBackend EXCEPT !.docs = TwoDocs]>>,
    <<ToolCall("get_document", Obj([id |-> Str("doc-9")])), QuietBackend>>,
    <<ToolCall("list_tags", Undefined),
      [QuietBackend EXCEPT !.facets = Dict(<<<<"a", Num(1)>>, <<"b", Num(2)>>>>)]>>,
    <<ToolCall("lookup_decision", Obj([question |-> Str("Why redis?")])),
      [QuietBackend EXCEPT !.docs = TwoDocs]>>,
    <<ToolCall("lookup_decision", Obj([question |-> Str("Why kafka?")])),
      [QuietBackend EXCEPT !.search = "unavailable"]>>,
    <<ToolCall("search_docs", Undefined), QuietBackend>> }

\* A variant where every handler reads the arguments of the first of the
\* invocations at hand, as if args were shared.
ArgumentsOf_first(i) ==
  request[CHOOSE j \in Invocations :
            /\ request[j] # NoRequest
            /\ \A k \in Invocations : request[k] # NoRequest => j <= k].arguments

\* const { name, arguments: args } = request.params, of invocation i.
ArgumentsOf(i) == request[i].arguments

\* The handler of binding b, up to its first await.
FirstStep(b, name, args) ==
  IF b = "stdio" THEN Stdio_callTool(name, args) ELSE Sse_callTool(name, args)

\* ... and from an awaited answer on.
ResumeStep(b, continuation, args, reply) ==
  IF b = "stdio" THEN Stdio_resume(continuation, args, reply)
                 ELSE Sse_resume(continuation, args, reply)

ConcurrentInit ==
  /\ request = [i \in Invocations |-> NoRequest]
  /\ backend = [i \in Invocations |-> QuietBackend]
  /\ pc = [i \in Invocations |-> "idle"]
  /\ next = [i \in Invocations |-> "-"]
  /\ sent = [i \in Invocations |-> <<>>]
  /\ responses = [i \in Invocations |-> <<>>]

\* A request arrives at a server while others may be in flight.
Arrive(i) ==
  /\ request[i] = NoRequest
  /\ \E b \in Bindings, input \in ConcurrentInputs :
       /\ request' = [request EXCEPT ![i] = input[1] @@ [binding |-> b]]
       /\ backend' = [backend EXCEPT ![i] = input[2]]
  /\ pc' = [pc EXCEPT ![i] = "received"]
  /\ UNCHANGED <<next, sent, responses>>

\* The handler of invocation i, up to its first await.
FirstStepOf(i) == FirstStep(request[i].binding, request[i].name, ArgumentsOf(i))

\* ... and from the answer to the backend call it awaits.
ReplyStepOf(i) ==
  ResumeStep(request[i].binding, next[i], ArgumentsOf(i),
             Answer(backend[i], sent[i][Len(sent[i])]))

\* Invocation i, standing at `at`, runs a stretch of its handler.
Run(i, at, step) ==
  /\ pc[i] = at
  /\ Settle(i, step)
  /\ UNCHANGED <<request, backend>>

\* Its handler runs up to the first await.
Start(i) ==
  /\ pc[i] = "received"
  /\ \E step \in {FirstStepOf(i)} : Run(i, "received", step)

\* The backend call it awaits settles and its handler runs on.
Reply(i) ==
  /\ pc[i] = "awaiting"
  /\ \E step \in {ReplyStepOf(i)} : Run(i, "awaiting", step)

\* Its response has gone to the transport: nothing of it is kept.
Deliver(i) ==
  /\ request[i] # NoRequest
  /\ pc[i] = "idle"
  /\ request' = [request EXCEPT ![i] = NoRequest]
  /\ backend' = [backend EXCEPT ![i] = QuietBackend]
  /\ sent' = [sent EXCEPT ![i] = <<>>]
  /\ responses' = [responses EXCEPT ![i] = <<>>]
  /\ UNCHANGED <<pc, next>>

ConcurrentNext ==
  \/ \E i \in Invocations : Arrive(i)
  \/ \E i \in Invocations : Start(i)
  \/ \E i \in Invocations : Reply(i)
  \/ \E i \in Invocations : Deliver(i)

ConcurrentSpec == ConcurrentInit /\ [][ConcurrentNext]_vars

(***************************************************************************)
(* C12: with any number of invocations in flight and any interleaving of   *)
(* their backend calls and completions, every invocation issues the        *)
(* backend calls and gives the one response that it would if it ran alone  *)
(* with the same arguments and the same backend answers; and while one     *)
(* invocation awaits its backend call, any other invocation can take its   *)
(* next step (start, or run on from its own answer), so it completes       *)
(* without waiting for the first.                                          *)
(***************************************************************************)
\* The handler run from step to its end with nothing else in flight.
RECURSIVE RunAlone(_, _, _, _)
RunAlone(b, args, answers, step) ==
  IF step.kind = "request"
    THEN LET rest == RunAlone(b, args, answers,
                              ResumeStep(b, step.next, args, Answer(answers, step.req)))
         IN [rest EXCEPT !.calls = <<step.req>> \o @]
    ELSE [calls |-> <<>>,
          response |-> IF step.kind = "return" THEN SuccessEnvelope(step.value)
                                               ELSE ErrorEnvelope(step.message)]

Alone(i) ==
  RunAlone(request[i].binding, request[i].arguments, backend[i],
           FirstStep(request[i].binding, request[i].name, request[i].arguments))

Completed(i) == request[i] # NoRequest /\ pc[i] = "idle"

=============================================================================
